---- MODULE Spec2Model ----
(***************************************************************************)
(* Open-CS-408: the question bank editor (src/questions/manager.py) and    *)
(* the workbook generator (src/questions/generate_pdf.py).                 *)
(*                                                                         *)
(* Text values that the code compares, slices or formats (identifiers,     *)
(* subject codes, chapter numbers) are sequences of one-character strings, *)
(* ordered by character code as SQLite's BINARY collation and Python's str *)
(* comparison order them.  Values that are only stored and compared for    *)
(* equality (status, question text, dates) are plain strings.              *)
(***************************************************************************)
EXTENDS Integers, Sequences, FiniteSets, TLC

VARIABLES
    store,      \* the rows of table questions (a set: the key is enforced by InsertRow)
    pc,         \* per editor: "idle", or "insert" between generate_question_id and insert_question
    pend,       \* per editor: the question_data built by the running create/duplicate handler
    cur,        \* per editor: current_question_data (NoRow when nothing is loaded)
    outcome,    \* per editor: how its last handler ended
    ops,        \* number of handlers started so far (bounded by MaxOps)
    impFile,    \* the file of the last import_questions call
    impBefore,  \* the store when that call started
    impDone,    \* how many entries of the file that call went through
    impErr,     \* whether that call ended in its except branch
    ppc,        \* position of the generator run (main)
    questions,  \* the list main holds after fetch_published_questions
    fetched,    \* the published rows of the store at the moment of the fetch
    story,      \* the flowables built by generate_content_pdf
    edits,      \* number of editor writes made while SpecPdf runs (bounded by MaxEdits)
    tempFile,   \* the file temp_workbook.pdf
    finalFile,  \* the file OUTPUT_PDF
    finalBefore,\* the file OUTPUT_PDF when the run started
    writer,     \* the PdfWriter of add_bookmarks: its pages and its outline
    lazyImages  \* whether the installed reportlab reads an image file when the
                \* Image is drawn (TRUE) or when it is made (FALSE)

vars == <<store, pc, pend, cur, outcome, ops, impFile, impBefore, impDone, impErr,
          ppc, questions, fetched, story, edits, tempFile, finalFile, finalBefore, writer,
          lazyImages>>

editorVars == <<pc, pend, cur, outcome, ops>>
importVars == <<impFile, impBefore, impDone, impErr>>
fileVars   == <<tempFile, finalFile, finalBefore, writer>>
pdfVars    == <<ppc, questions, fetched, story, edits, fileVars, lazyImages>>

(***************************************************************************)
(* Bounds of the model.                                                    *)
(***************************************************************************)
MaxOps     == 4   \* handlers started in one behaviour of Spec
MaxFileLen == 3   \* entries of an import file
MaxCatalog == 3   \* rows of the store a generator run starts from
MaxEdits   == 1   \* editor writes during a generator run
MaxPages   == 5   \* pages of a paginated workbook

(***************************************************************************)
(* Characters and strings.                                                 *)
(***************************************************************************)
Digits == <<"0", "1", "2", "3", "4", "5", "6", "7", "8", "9">>

IsDigit(c) == \E i \in 1..Len(Digits) : Digits[i] = c

DigitVal(c) == (CHOOSE i \in 1..Len(Digits) : Digits[i] = c) - 1

\* Character codes (ASCII) of the characters the model uses.
CharCode(c) ==
    IF IsDigit(c) THEN 48 + DigitVal(c)
    ELSE CASE c = "C" -> 67 [] c = "D" -> 68 [] c = "N" -> 78 [] c = "O" -> 79
           [] c = "S" -> 83 [] c = "X" -> 88 [] c = "a" -> 97

Min(a, b) == IF a < b THEN a ELSE b

\* a < b for text: the first differing character decides, a proper prefix is smaller.
StrLess(a, b) ==
    \E k \in 1..(Min(Len(a), Len(b)) + 1) :
        /\ \A i \in 1..(k - 1) : a[i] = b[i]
        /\ \/ k > Len(a) /\ k <= Len(b)
           \/ k <= Len(a) /\ k <= Len(b) /\ CharCode(a[k]) < CharCode(b[k])

StrLeq(a, b) == a = b \/ StrLess(a, b)

\* int("000123") = 123
RECURSIVE ParseInt(_)
ParseInt(ds) ==
    IF ds = <<>> THEN 0
    ELSE 10 * ParseInt(SubSeq(ds, 1, Len(ds) - 1)) + DigitVal(ds[Len(ds)])

\* str(n) for n >= 0
RECURSIVE DecimalDigits(_)
DecimalDigits(n) ==
    IF n < 10 THEN <<Digits[n + 1]>>
    ELSE Append(DecimalDigits(n \div 10), Digits[(n % 10) + 1])

RECURSIVE ZeroPad(_, _)
ZeroPad(ds, width) == IF Len(ds) >= width THEN ds ELSE ZeroPad(<<"0">> \o ds, width)

\* Width of the sequence part of an identifier: \d{6} and :06d.
IdDigits == 6

\* f"{n:06d}": at least six digits, more when n needs them.
Format06d(n) == ZeroPad(DecimalDigits(n), IdDigits)

(***************************************************************************)
(* SUBJECTS: the configured subjects and chapters, in display order.       *)
(***************************************************************************)
DS == <<"D", "S">>
CO == <<"C", "O">>
OS == <<"O", "S">>
CN == <<"C", "N">>

Chapter(n) == <<"0", Digits[n + 1]>>

SUBJECT_ORDER == <<DS, CO, OS, CN>>

\* SUBJECTS[sub]["name"] (the names are given in English here)
SubjectName(sub) ==
    CASE sub = DS -> "Data Structures"
      [] sub = CO -> "Computer Organization"
      [] sub = OS -> "Operating Systems"
      [] sub = CN -> "Computer Networks"

\* SUBJECTS[sub]["chapters"].values(), in the order of the keys "01", "02", ...
ChapterNames(sub) ==
    CASE sub = DS -> <<"Basic concepts", "Linear lists", "Stacks, queues and arrays",
                       "Trees and binary trees", "Graphs", "Searching", "Sorting">>
      [] sub = CO -> <<"Computer system overview", "Data representation and arithmetic",
                       "Memory hierarchy", "Instruction set", "Central processing unit",
                       "Buses and input/output">>
      [] sub = OS -> <<"Operating system overview", "Process management",
                       "Memory management", "File management", "Input/output management">>
      [] sub = CN -> <<"Network architecture", "Physical layer", "Data link layer",
                       "Network layer", "Transport layer", "Application layer">>

\* list(SUBJECTS[sub]["chapters"].keys())
ChapterOrder(sub) == [i \in 1..Len(ChapterNames(sub)) |-> Chapter(i)]

SeqRange(s) == {s[i] : i \in 1..Len(s)}

InSubjects(sub) == sub \in SeqRange(SUBJECT_ORDER)

InChapters(sub, chap) == InSubjects(sub) /\ chap \in SeqRange(ChapterOrder(sub))

IndexOf(s, x) == CHOOSE i \in 1..Len(s) : s[i] = x

(***************************************************************************)
(* Rows of table questions.  The model keeps the key, the grouping columns,*)
(* the type, the status, the four options, the explanation and the image   *)
(* path, the two dates, and question_text, which stands for the columns    *)
(* that are stored and printed as they are (correct_answer, knowledge,     *)
(* notes).  An empty text "" stands for both '' and NULL where the column  *)
(* allows NULL.                                                            *)
(***************************************************************************)
Fields == {"id", "subject_code", "chapter_num", "question_type", "status",
           "question_text", "option_a", "option_b", "option_c", "option_d",
           "explanation", "created_date", "last_modified", "image_path"}

\* A row with empty options, explanation and image path.
Row(id, sub, chap, status, text, created, modified) ==
    [id |-> id, subject_code |-> sub, chapter_num |-> chap,
     question_type |-> "single_choice", status |-> status, question_text |-> text,
     option_a |-> "", option_b |-> "", option_c |-> "", option_d |-> "",
     explanation |-> "", created_date |-> created, last_modified |-> modified,
     image_path |-> ""]

NoRow == Row(<<>>, <<>>, <<>>, "", "", "", "")

\* datetime.now().strftime("%Y-%m-%d"); file entries carry the older date "past".
Today == "today"

Ids(rows) == {r.id : r \in rows}

\* id TEXT PRIMARY KEY
UniqueIds(rows) == \A r1, r2 \in rows : r1.id = r2.id => r1 = r2

(***************************************************************************)
(* DatabaseManager and the statements the editor runs on table questions.  *)
(***************************************************************************)

\* SELECT id FROM questions WHERE subject_code = ? AND chapter_num = ?
PairIds(rows, sub, chap) ==
    {r.id : r \in {x \in rows : x.subject_code = sub /\ x.chapter_num = chap}}

\* (the same with ORDER BY id ASC)
FirstId(ids) == CHOOSE i \in ids : \A j \in ids : StrLeq(i, j)

\* ... ORDER BY id DESC LIMIT 1 (of a non-empty result)
LastId(ids) == CHOOSE i \in ids : \A j \in ids : StrLeq(j, i)

\* re.match(rf"{subject_code}{chapter_num}(\d{{6}})", last_id): anchored at the start
\* only, so characters after the six digits are allowed.
IdMatches(prefix, id) ==
    /\ Len(id) >= Len(prefix) + IdDigits
    /\ SubSeq(id, 1, Len(prefix)) = prefix
    /\ \A i \in (Len(prefix) + 1)..(Len(prefix) + IdDigits) : IsDigit(id[i])

\* match.group(1)
IdGroup1(prefix, id) == SubSeq(id, Len(prefix) + 1, Len(prefix) + IdDigits)

\* new_num of generate_question_id
NewNum(rows, sub, chap) ==
    LET result == PairIds(rows, sub, chap)
    IN  IF result # {}
        THEN LET last_id == LastId(result)
             IN  IF IdMatches(sub \o chap, last_id)
                 THEN ParseInt(IdGroup1(sub \o chap, last_id)) + 1
                 ELSE 1
        ELSE 1

generate_question_id(rows, sub, chap) == sub \o chap \o Format06d(NewNum(rows, sub, chap))

\* INSERT INTO questions: sqlite3.IntegrityError when the key is taken.
InsertRaises(rows, row) == row.id \in Ids(rows)

InsertRow(rows, row) == rows \cup {row}

\* UPDATE questions SET ... WHERE id = ?: every column but id and created_date,
\* last_modified set to the current date.
UpdatedRow(old, q) ==
    [old EXCEPT !.subject_code = q.subject_code, !.chapter_num = q.chapter_num,
                !.question_type = q.question_type, !.status = q.status,
                !.question_text = q.question_text,
                !.option_a = q.option_a, !.option_b = q.option_b,
                !.option_c = q.option_c, !.option_d = q.option_d,
                !.explanation = q.explanation, !.last_modified = Today,
                !.image_path = q.image_path]

update_question(rows, q) ==
    {IF r.id = q.id THEN UpdatedRow(r, q) ELSE r : r \in rows}

\* SELECT * FROM questions WHERE id = ? (of a stored id)
RowOf(rows, id) == CHOOSE r \in rows : r.id = id

(***************************************************************************)
(* The editor's handlers.  Several editor processes may work on the same   *)
(* database file; every statement runs on its own connection and commits,  *)
(* so a create or duplicate handler is two steps: generate_question_id     *)
(* (a SELECT) and insert_question (an INSERT).                             *)
(***************************************************************************)
Editors == {"e1", "e2"}

\* The (subject, chapter) choices of the new-question dialog used as inputs.
CreatePairs == {<<DS, Chapter(1)>>, <<DS, Chapter(2)>>}

\* create_question_from_dialog up to the question_data dict
CreateGenerate(e, sub, chap) ==
    /\ pc[e] = "idle"
    /\ InChapters(sub, chap)
    /\ pend' = [pend EXCEPT ![e] =
                  Row(generate_question_id(store, sub, chap), sub, chap, "draft",
                      "new", Today, Today)]
    /\ pc' = [pc EXCEPT ![e] = "insert"]
    /\ outcome' = [outcome EXCEPT ![e] = "running"]
    /\ UNCHANGED <<store, cur>>

\* duplicate_question up to new_question_data
DuplicateGenerate(e) ==
    /\ pc[e] = "idle"
    /\ cur[e] # NoRow
    /\ pend' = [pend EXCEPT ![e] =
                  [cur[e] EXCEPT
                     !.id = generate_question_id(store, cur[e].subject_code,
                                                 cur[e].chapter_num),
                     !.created_date = Today, !.last_modified = Today,
                     !.status = "draft"]]
    /\ pc' = [pc EXCEPT ![e] = "insert"]
    /\ outcome' = [outcome EXCEPT ![e] = "running"]
    /\ UNCHANGED <<store, cur>>

\* insert_question, then refresh_question_list and load_question; the handlers
\* catch nothing, so an IntegrityError leaves them and reaches their caller.
InsertPending(e) ==
    /\ pc[e] = "insert"
    /\ pc' = [pc EXCEPT ![e] = "idle"]
    /\ pend' = [pend EXCEPT ![e] = NoRow]
    /\ IF InsertRaises(store, pend[e])
       THEN /\ outcome' = [outcome EXCEPT ![e] = "IntegrityError"]
            /\ UNCHANGED <<store, cur>>
       ELSE /\ store' = InsertRow(store, pend[e])
            /\ cur' = [cur EXCEPT ![e] = RowOf(store', pend[e].id)]
            /\ outcome' = [outcome EXCEPT ![e] = "created"]

\* on_tree_double_click / load_question of a listed question
LoadQuestion(e, id) ==
    /\ pc[e] = "idle"
    /\ id \in Ids(store)
    /\ cur' = [cur EXCEPT ![e] = RowOf(store, id)]
    /\ outcome' = [outcome EXCEPT ![e] = "loaded"]
    /\ UNCHANGED <<store, pc, pend>>

\* The values the edit form may hold when Save is pressed: the status chosen
\* and the question text typed ("" is an emptied text box).
SaveInputs == {<<"published", "edited">>, <<"draft", "">>}

\* save_current_question: question_data takes id, subject_code, chapter_num and
\* created_date from current_question_data and the rest from the form, which
\* load_question filled from the same row; current_question_data is not re-read.
save_current_question(e, status, text) ==
    /\ pc[e] = "idle"
    /\ cur[e] # NoRow
    /\ IF text = ""
       THEN /\ outcome' = [outcome EXCEPT ![e] = "rejected"]
            /\ UNCHANGED store
       ELSE /\ store' = update_question(store,
                            [cur[e] EXCEPT !.status = status, !.question_text = text])
            /\ outcome' = [outcome EXCEPT ![e] = "saved"]
    /\ UNCHANGED <<pc, pend, cur>>

\* delete_current_question, confirmed: DELETE FROM questions WHERE id = ?
delete_current_question(e) ==
    /\ pc[e] = "idle"
    /\ cur[e] # NoRow
    /\ store' = {r \in store : r.id # cur[e].id}
    /\ cur' = [cur EXCEPT ![e] = NoRow]
    /\ outcome' = [outcome EXCEPT ![e] = "deleted"]
    /\ UNCHANGED <<pc, pend>>


(***************************************************************************)
(* import_questions.  A file is a list of entries; an entry is a dict that *)
(* may lack keys (or carry null for them): row holds the values of the     *)
(* keys it has, missing names the keys it lacks.                           *)
(***************************************************************************)
Entry(row, missing) == [row |-> row, missing |-> missing]

\* q_data.get('id') is falsy
NoId(q) == "id" \in q.missing \/ q.row.id = <<>>

\* The keys update_question and insert_question read: a missing one raises KeyError,
\* a null one violates NOT NULL; update_question reads neither date.
UpdateKeys == Fields \ {"created_date", "last_modified"}
InsertKeys == Fields

UpdateRaises(q) == q.missing \cap UpdateKeys # {}

InsertEntryRaises(rows, q) == q.missing \cap InsertKeys # {} \/ InsertRaises(rows, q.row)

\* (a check that never finds the row)
ExistingNever(rows, id) == FALSE

\* SELECT id FROM questions WHERE id = ?
Existing(rows, id) == id \in Ids(rows)

\* One pass of the for loop over entry q; st = [rows, done, err].
ImportEntry(st, q) ==
    IF NoId(q) THEN [st EXCEPT !.done = @ + 1]
    ELSE IF Existing(st.rows, q.row.id)
    THEN IF UpdateRaises(q) THEN [st EXCEPT !.err = TRUE]
         ELSE [st EXCEPT !.rows = update_question(@, q.row), !.done = @ + 1]
    ELSE IF InsertEntryRaises(st.rows, q) THEN [st EXCEPT !.err = TRUE]
         ELSE [st EXCEPT !.rows = InsertRow(@, q.row), !.done = @ + 1]

\* The for loop from entry i on; an exception leaves it for the except branch.
RECURSIVE ImportLoop(_, _, _)
ImportLoop(st, file, i) ==
    IF i > Len(file) \/ st.err THEN st
    ELSE ImportLoop(ImportEntry(st, file[i]), file, i + 1)

ImportResult(rows, file) == ImportLoop([rows |-> rows, done |-> 0, err |-> FALSE], file, 1)

\* import_questions of editor e on file, except for the record kept of the call
ImportEffect(e, file) ==
    /\ pc[e] = "idle"
    /\ store' = ImportResult(store, file).rows
    /\ outcome' = [outcome EXCEPT ![e] =
                     IF ImportResult(store, file).err THEN "import failed" ELSE "imported"]
    /\ UNCHANGED <<pc, pend, cur>>

ImportRecord(file) ==
    /\ impFile' = file
    /\ impBefore' = store
    /\ impDone' = ImportResult(store, file).done
    /\ impErr' = ImportResult(store, file).err

import_questions(e, file) == ImportEffect(e, file) /\ ImportRecord(file)

(***************************************************************************)
(* Inputs: the entries import files are made of.                           *)
(***************************************************************************)
Id(sub, chap, digits) == sub \o chap \o digits

Id1      == Id(DS, Chapter(1), <<"0", "0", "0", "0", "0", "1">>)
IdTop    == Id(DS, Chapter(1), <<"9", "9", "9", "9", "9", "9">>)
IdLegacy == Id(DS, Chapter(1), <<"a">>)
IdOther  == Id(DS, Chapter(2), <<"0", "0", "0", "0", "0", "1">>)

EntryA == Entry(Row(Id1, DS, Chapter(1), "published", "A", "past", "past"), {})
EntryB == Entry(Row(Id1, DS, Chapter(1), "draft", "B", "past", "past"), {})
EntryTop == Entry(Row(IdTop, DS, Chapter(1), "published", "A", "past", "past"), {})
EntryLegacy == Entry(Row(IdLegacy, DS, Chapter(1), "published", "A", "past", "past"), {})
\* an identifier of chapter 02 on a row of chapter 01
EntryMoved == Entry(Row(IdOther, DS, Chapter(1), "published", "A", "past", "past"), {})
EntryNoId == Entry(Row(<<>>, DS, Chapter(1), "published", "A", "past", "past"), {"id"})
EntryNoSubject ==
    Entry(Row(IdOther, <<>>, Chapter(2), "published", "A", "past", "past"), {"subject_code"})
EntryNoDates ==
    Entry(Row(Id1, DS, Chapter(1), "published", "C", "", ""), {"created_date", "last_modified"})

ImportEntries == {EntryA, EntryB, EntryTop, EntryLegacy, EntryMoved, EntryNoId,
                  EntryNoSubject, EntryNoDates}

FilesOfLen(n) == [1..n -> ImportEntries]

ImportFiles == UNION {FilesOfLen(n) : n \in 1..MaxFileLen}

(***************************************************************************)
(* The two files of a generator run.  A file is absent, a PDF document     *)
(* (kind "pdf": its page count and its outline), a file that was opened    *)
(* for writing and not written to the end ("partial"), or a file that no   *)
(* PDF reader opens ("unreadable").  date tells the documents of this run  *)
(* (the cover carries the current date) from older ones.                   *)
(***************************************************************************)
File(kind, pages, nodes, date) ==
    [kind |-> kind, pages |-> pages, outline |-> nodes, date |-> date]

NoFile == File("absent", 0, <<>>, "")

\* An outline node: title, page_number and parent (the position of the parent
\* node in the outline, 0 for a top-level node).
Node(title, page, parent) == [title |-> title, page |-> page, parent |-> parent]

\* A workbook left under the final name by an earlier run.
OldFinal == File("pdf", 3, <<Node("Questions", 1, 0), Node("Answers", 2, 0)>>, "past")

\* writer = PdfWriter()
NoWriter == [pages |-> 0, outline |-> <<>>]

(***************************************************************************)
(* Spec: editors creating, duplicating, saving, deleting, loading and      *)
(* importing.                                                              *)
(***************************************************************************)
InitEditors ==
    /\ pc = [e \in Editors |-> "idle"]
    /\ pend = [e \in Editors |-> NoRow]
    /\ cur = [e \in Editors |-> NoRow]
    /\ outcome = [e \in Editors |-> "none"]
    /\ ops = 0

InitImport ==
    /\ impFile = <<>>
    /\ impBefore = {}
    /\ impDone = 0
    /\ impErr = FALSE

InitPdfIdle ==
    /\ ppc = "off"
    /\ questions = <<>>
    /\ fetched = {}
    /\ story = <<>>
    /\ edits = 0
    /\ tempFile = NoFile
    /\ finalFile = NoFile
    /\ finalBefore = NoFile
    /\ writer = NoWriter
    /\ lazyImages = FALSE

Init == store = {} /\ InitEditors /\ InitImport /\ InitPdfIdle

Started == ops < MaxOps /\ ops' = ops + 1

Create == \E e \in Editors, p \in CreatePairs : CreateGenerate(e, p[1], p[2]) /\ Started

Duplicate == \E e \in Editors : DuplicateGenerate(e) /\ Started

Insert == \E e \in Editors : InsertPending(e) /\ UNCHANGED ops

Load == \E e \in Editors, id \in Ids(store) : LoadQuestion(e, id) /\ Started

Save == \E e \in Editors, in \in SaveInputs : save_current_question(e, in[1], in[2]) /\ Started

Delete == \E e \in Editors : delete_current_question(e) /\ Started

\* In Spec an import brings one entry at a time; SpecImport covers longer files.
Import == \E e \in Editors, file \in FilesOfLen(1) : ImportEffect(e, file) /\ Started

Next ==
    \/ Create /\ UNCHANGED <<importVars, pdfVars>>
    \/ Duplicate /\ UNCHANGED <<importVars, pdfVars>>
    \/ Insert /\ UNCHANGED <<importVars, pdfVars>>
    \/ Load /\ UNCHANGED <<importVars, pdfVars>>
    \/ Save /\ UNCHANGED <<importVars, pdfVars>>
    \/ Delete /\ UNCHANGED <<importVars, pdfVars>>
    \/ Import /\ UNCHANGED <<importVars, pdfVars>>

Spec == Init /\ [][Next]_vars

(***************************************************************************)
(* SpecImport: import_questions alone, with a record of each call.         *)
(***************************************************************************)
\* A first import fills the empty store; the call after it is the one recorded.
ImportSetup ==
    /\ store = {} /\ impFile = <<>>
    /\ \E file \in ImportFiles : ImportEffect("e1", file)
    /\ UNCHANGED importVars

ImportCall == impFile = <<>> /\ \E file \in ImportFiles : import_questions("e1", file)

NextImport ==
    \/ ImportSetup /\ UNCHANGED <<ops, pdfVars>>
    \/ ImportCall /\ UNCHANGED <<ops, pdfVars>>

SpecImport == Init /\ [][NextImport]_vars

(***************************************************************************)
(* Identifier assignment: C6 - C9.                                         *)
(***************************************************************************)
Pairs == CreatePairs

\* An identifier of the form prefix + exactly six digits.
WellFormed(prefix, id) == Len(id) = Len(prefix) + IdDigits /\ IdMatches(prefix, id)

\* The sequence values of the well-formed identifiers of a pair.
SeqValues(rows, sub, chap) ==
    {ParseInt(IdGroup1(sub \o chap, id)) :
        id \in {x \in PairIds(rows, sub, chap) : WellFormed(sub \o chap, x)}}

MaxOf(S) == CHOOSE m \in S : \A n \in S : n <= m

\* 1 + the maximum sequence value of the pair, 1 when it has none.
ExpectedNum(rows, sub, chap) ==
    IF SeqValues(rows, sub, chap) = {} THEN 1 ELSE 1 + MaxOf(SeqValues(rows, sub, chap))

ExpectedId(rows, sub, chap) == sub \o chap \o Format06d(ExpectedNum(rows, sub, chap))

\* C6: in every store the editors can produce, generate_question_id(group, subgroup)
\* is group + subgroup + the zero-padded value 1 + max of the sequence values of the
\* pair's identifiers, 000001 for a pair without rows.
C6_NextIsMaxPlusOne ==
    \A p \in Pairs : generate_question_id(store, p[1], p[2]) = ExpectedId(store, p[1], p[2])

\* The rows a create handler, run start to end, leaves in the store.
AfterCreate(rows, sub, chap) ==
    LET row == Row(generate_question_id(rows, sub, chap), sub, chap, "draft", "new",
                   Today, Today)
    IN  IF InsertRaises(rows, row) THEN rows ELSE InsertRow(rows, row)

\* C7: from every store the editors can produce, two creations in sequence for one
\* pair get identifiers that are not in the store yet and that increase.
C7_SequentialCreatesDoNotCollide ==
    \A p \in Pairs :
        LET id1 == generate_question_id(store, p[1], p[2])
            id2 == generate_question_id(AfterCreate(store, p[1], p[2]), p[1], p[2])
        IN  /\ id1 \notin Ids(store)
            /\ id2 \notin Ids(store) \cup {id1}
            /\ StrLess(id1, id2)

\* C8: when a pair has an identifier that is not prefix + six digits, the result is
\* still 1 + the maximum over the well-formed identifiers of the pair.
C8_MalformedIdsAreSkipped ==
    \A p \in Pairs :
        (\E id \in PairIds(store, p[1], p[2]) : ~WellFormed(p[1] \o p[2], id))
            => generate_question_id(store, p[1], p[2]) = ExpectedId(store, p[1], p[2])

SamePair(r1, r2) == r1.subject_code = r2.subject_code /\ r1.chapter_num = r2.chapter_num

\* C9: when two creations of one pair hold the same identifier before either has
\* inserted, the first insert succeeds; an insert of an identifier the store holds is
\* rejected, the IntegrityError reaches the handler's caller and the rows stay as they
\* are; the store never holds two rows with one id.
C9_CollidingInsertIsRejected ==
    [][\A e \in Editors :
         (pc[e] = "insert" /\ pc'[e] = "idle") =>
            /\ (\E o \in Editors \ {e} :
                    pc[o] = "insert" /\ SamePair(pend[o], pend[e]) /\ pend[o].id = pend[e].id)
                  => (outcome'[e] = "created" /\ pend[e] \in store')
            /\ pend[e].id \in Ids(store)
                  => (outcome'[e] = "IntegrityError" /\ store' = store)
            /\ UniqueIds(store')]_vars

(***************************************************************************)
(* Import: C10.                                                            *)
(***************************************************************************)
\* The ids of the first n entries of a file.
FileIds(file, n) == {file[i].row.id : i \in {j \in 1..n : ~NoId(file[j])}}

Occurrences(file, n, id) == {i \in 1..n : ~NoId(file[i]) /\ file[i].row.id = id}

FirstOf(S) == CHOOSE i \in S : \A j \in S : i <= j

\* The row shows the entry: the columns an import writes in both of its branches.
Shows(r, q) ==
    \A f \in Fields \ {"id", "created_date", "last_modified"} : r[f] = q.row[f]

\* C10 as stated: after an import every entry of the file that has an id is in the
\* store, as the one row of that id, showing the entry (the last one of that id).
C10_EveryEntryIsUpserted ==
    impFile # <<>> =>
        /\ UniqueIds(store)
        /\ \A id \in FileIds(impFile, Len(impFile)) :
              \E r \in store :
                  /\ r.id = id
                  /\ Shows(r, impFile[MaxOf(Occurrences(impFile, Len(impFile), id))])

\* An entry one of the two statements refuses: a key it reads is missing or null.
Refused(q, known) ==
    /\ ~NoId(q)
    /\ IF q.row.id \in known THEN q.missing \cap UpdateKeys # {}
       ELSE q.missing \cap InsertKeys # {}

\* C10 amended: the import goes through the file in order up to the first entry a
\* statement refuses; every entry before that point is upserted (updated when its id
\* is in the store or earlier in the file, inserted otherwise), the other rows stay,
\* and the store holds one row per id, also after an import that stopped.
C10_EntriesAreUpsertedUntilOneIsRefused ==
    impFile # <<>> =>
        LET n == impDone
            ids == FileIds(impFile, n)
        IN  /\ UniqueIds(store)
            /\ ~impErr => n = Len(impFile)
            /\ impErr => n < Len(impFile)
                         /\ Refused(impFile[n + 1], Ids(impBefore) \cup ids)
            /\ Ids(store) = Ids(impBefore) \cup ids
            /\ \A r \in store : r.id \notin ids => r \in impBefore
            /\ \A id \in ids :
                  LET occ == Occurrences(impFile, n, id)
                      r == RowOf(store, id)
                  IN  /\ Shows(r, impFile[MaxOf(occ)])
                      /\ IF id \in Ids(impBefore)
                         THEN /\ r.created_date = RowOf(impBefore, id).created_date
                              /\ r.last_modified = Today
                         ELSE /\ r.created_date = impFile[FirstOf(occ)].row.created_date
                              /\ IF Cardinality(occ) = 1 THEN r = impFile[FirstOf(occ)].row
                                 ELSE r.last_modified = Today

\* An import that went through a file holding an id of the store and a new id twice.
C10_Witness ==
    /\ impFile # <<>> /\ ~impErr
    /\ \E id \in FileIds(impFile, Len(impFile)) : id \in Ids(impBefore)
    /\ \E id \in FileIds(impFile, Len(impFile)) :
          id \notin Ids(impBefore) /\ Cardinality(Occurrences(impFile, Len(impFile), id)) > 1

(***************************************************************************)
(* The identifier and the fields of a row: C11.                            *)
(***************************************************************************)
\* The id of r starts with r's own subject_code followed by r's own chapter_num.
PrefixMatches(r) ==
    LET prefix == r.subject_code \o r.chapter_num
    IN  Len(r.id) >= Len(prefix) /\ SubSeq(r.id, 1, Len(prefix)) = prefix

\* C11: after any sequence of create, duplicate, save, delete and import, the id
\* of every row of the store starts with the row's own subject_code and
\* chapter_num.
C11_IdPrefixMatchesFields == \A r \in store : PrefixMatches(r)

(***************************************************************************)
(* The structure of a new identifier: C24.                                 *)
(***************************************************************************)
\* C24: in every store the editors can produce, also one whose highest
\* identifier of the pair ends in 999999, generate_question_id returns the
\* pair's prefix followed by exactly six digits.
C24_SixDigitIds ==
    \A p \in Pairs : WellFormed(p[1] \o p[2], generate_question_id(store, p[1], p[2]))

(***************************************************************************)
(* generate_pdf.py: fetch_published_questions.                             *)
(***************************************************************************)
\* (a filter that lets drafts through)
NotDeprecated(rows) == {r \in rows : r.status # "deprecated"}

\* WHERE status = 'published'
Published(rows) == {r \in rows : r.status = "published"}

\* ORDER BY id: the rows as a list in ascending id order.
RECURSIVE OrderById(_)
OrderById(rows) ==
    IF rows = {} THEN <<>>
    ELSE LET first == CHOOSE r \in rows : \A x \in rows : StrLeq(r.id, x.id)
         IN  <<first>> \o OrderById(rows \ {first})

\* The rank sort_key gives to what SUBJECTS does not list.
Unranked == 999

\* (a rank that puts the unlisted first)
SubIdxUnlistedFirst(sub) ==
    IF InSubjects(sub) THEN IndexOf(SUBJECT_ORDER, sub) - 1 ELSE 0 - 1

\* SUBJECT_ORDER.index(sub) if sub in SUBJECT_ORDER else 999
SubIdx(sub) == IF InSubjects(sub) THEN IndexOf(SUBJECT_ORDER, sub) - 1 ELSE Unranked

\* CHAPTER_ORDER_MAP[sub].get(chap, 999) if sub in CHAPTER_ORDER_MAP else 999
ChapIdx(sub, chap) ==
    IF InSubjects(sub)
    THEN IF chap \in SeqRange(ChapterOrder(sub))
         THEN IndexOf(ChapterOrder(sub), chap) - 1
         ELSE Unranked
    ELSE Unranked

\* (a key that leaves the ranks out)
sort_key_id_only(q) == <<0, 0, q.id>>

sort_key(q) == <<SubIdx(q.subject_code), ChapIdx(q.subject_code, q.chapter_num), q.id>>

\* k1 < k2 for the key tuples (int, int, str)
KeyLess(k1, k2) ==
    \/ k1[1] < k2[1]
    \/ k1[1] = k2[1] /\ k1[2] < k2[2]
    \/ k1[1] = k2[1] /\ k1[2] = k2[2] /\ StrLess(k1[3], k2[3])

\* list.sort(key=sort_key) is stable: an element goes after the elements that are
\* not greater than it.
RECURSIVE InsertSorted(_, _)
InsertSorted(sorted, q) ==
    IF sorted = <<>> THEN <<q>>
    ELSE IF KeyLess(sort_key(q), sort_key(Head(sorted)))
         THEN <<q>> \o sorted
         ELSE <<Head(sorted)>> \o InsertSorted(Tail(sorted), q)

RECURSIVE ListSort(_)
ListSort(list) ==
    IF list = <<>> THEN <<>>
    ELSE InsertSorted(ListSort(SubSeq(list, 1, Len(list) - 1)), list[Len(list)])

fetch_published_questions(rows) == ListSort(OrderById(Published(rows)))

(***************************************************************************)
(* generate_pdf.py: generate_content_pdf.  The story is a list of blocks;  *)
(* a block keeps its kind, the number printed in it (0 when it has none),  *)
(* its text and the row it was made from (NoRow when it is made from none).*)
(***************************************************************************)
Block(kind, num, text, q) == [kind |-> kind, num |-> num, text |-> text, q |-> q]

Spacer == Block("spacer", 0, "", NoRow)
PageBreak == Block("page_break", 0, "", NoRow)

Cover ==
    <<Spacer, Block("cover_title", 0, "Open-CS-408", NoRow),
      Block("cover_title", 0, "workbook", NoRow), Spacer,
      Block("cover_date", 0, Today, NoRow), PageBreak>>

\* itertools.groupby: the maximal runs of adjacent equal keys, as <<first, last>>
\* index pairs into the list.
RECURSIVE RunEnd(_, _)
RunEnd(keys, i) ==
    IF i < Len(keys) /\ keys[i + 1] = keys[i] THEN RunEnd(keys, i + 1) ELSE i

RECURSIVE RunsFrom(_, _)
RunsFrom(keys, i) ==
    IF i > Len(keys) THEN <<>>
    ELSE <<<<i, RunEnd(keys, i)>>>> \o RunsFrom(keys, RunEnd(keys, i) + 1)

\* groupby(list, key=lambda x: x["subject_code"]), each group as a list
GroupBySubject(list) ==
    LET keys == [i \in 1..Len(list) |-> list[i].subject_code]
        runs == RunsFrom(keys, 1)
    IN  [g \in 1..Len(runs) |-> SubSeq(list, runs[g][1], runs[g][2])]

\* groupby(subject_group, key=lambda x: x["chapter_num"])
GroupByChapter(list) ==
    LET keys == [i \in 1..Len(list) |-> list[i].chapter_num]
        runs == RunsFrom(keys, 1)
    IN  [g \in 1..Len(runs) |-> SubSeq(list, runs[g][1], runs[g][2])]

\* Files under assets/images that exist and that reportlab reads.
ImagesOnDisk == {"assets/images/a.png"}

\* Files under assets/images that exist and are no image.
BrokenImages == {"assets/images/bad.png"}

\* safe_image(path) returns an image: the path is not empty, the file exists,
\* and PlatypusImage(path, width=...) does not raise.  reportlab is not part of
\* the repository: a release that reads the file only when the image is drawn
\* does not raise here for a file that is no image.
safe_image(path) ==
    /\ path # ""
    /\ path \in ImagesOnDisk \cup BrokenImages
    /\ path \in BrokenImages => lazyImages

ImageBlocks(q) ==
    IF safe_image(q.image_path)
    THEN <<Spacer, Block("image", 0, q.image_path, q)>>
    ELSE <<>>

OptionBlock(letter, val, q) ==
    IF val # "" THEN <<Block("option", 0, letter, q)>> ELSE <<>>

\* (choice blocks lettered by their place among the filled choices)
OptionBlocksRelettered(q) ==
    LET vals == SelectSeq(<<q.option_a, q.option_b, q.option_c, q.option_d>>,
                          LAMBDA v : v # "")
    IN  IF q.question_type = "single_choice"
        THEN [j \in 1..Len(vals) |-> Block("option", 0, <<"A", "B", "C", "D">>[j], q)]
        ELSE <<>>

OptionBlocks(q) ==
    IF q.question_type = "single_choice"
    THEN OptionBlock("A", q.option_a, q) \o OptionBlock("B", q.option_b, q)
            \o OptionBlock("C", q.option_c, q) \o OptionBlock("D", q.option_d, q)
    ELSE <<>>

\* (a lookup that passes over a key the dict does not have)
KeyErrorPassedOver(st) == st

\* SUBJECTS[...] of a key the dict does not have: KeyError leaves the function
KeyError(st) == [st EXCEPT !.raised = TRUE]

\* The state of the items pass: the story so far, question_index, and whether a
\* KeyError has left the function.
PassState(st_story, index, raised) ==
    [story |-> st_story, question_index |-> index, raised |-> raised]

\* for q in chapter_group: the body
QuestionStep(st, q) ==
    [st EXCEPT !.story = @ \o <<Block("question", st.question_index, q.question_text, q)>>
                           \o OptionBlocks(q) \o ImageBlocks(q) \o <<Spacer>>,
               !.question_index = @ + 1]

RECURSIVE QuestionLoop(_, _)
QuestionLoop(st, group) ==
    IF group = <<>> THEN st ELSE QuestionLoop(QuestionStep(st, Head(group)), Tail(group))

\* The body of the chapter loop: SUBJECTS[subject_code]["chapters"][chapter_num]
\* raises KeyError for a chapter the subject does not list.
ChapterStep(st, sub, chapter_group) ==
    LET chap == chapter_group[1].chapter_num
    IN  IF ~InChapters(sub, chap) THEN KeyError(st)
        ELSE QuestionLoop(
                 [st EXCEPT !.story = Append(@,
                     Block("chapter_title", 0,
                           ChapterNames(sub)[IndexOf(ChapterOrder(sub), chap)], NoRow))],
                 chapter_group)

RECURSIVE ChapterLoop(_, _, _)
ChapterLoop(st, sub, groups) ==
    IF groups = <<>> \/ st.raised THEN st
    ELSE ChapterLoop(ChapterStep(st, sub, Head(groups)), sub, Tail(groups))

\* (a subject heading that also starts the numbering again)
SubjectHeadingRestart(st, sub) ==
    [st EXCEPT !.story = Append(@, Block("subject_title", 0, SubjectName(sub), NoRow)),
               !.question_index = 1]

\* story.append(Paragraph(subject_name, subject_title_style))
SubjectHeading(st, sub) ==
    [st EXCEPT !.story = Append(@, Block("subject_title", 0, SubjectName(sub), NoRow))]

\* (a subject that ends without a page break)
EndOfSubjectPlain(st) == st

\* story.append(PageBreak()) at the end of the body of the subject loop
EndOfSubject(st) == [st EXCEPT !.story = Append(@, PageBreak)]

\* The body of the subject loop: SUBJECTS[subject_code] raises KeyError for a
\* subject that is not listed; a PageBreak ends every subject.
SubjectStep(st, subject_group) ==
    LET sub == subject_group[1].subject_code
    IN  IF ~InSubjects(sub) THEN KeyError(st)
        ELSE LET after == ChapterLoop(SubjectHeading(st, sub), sub,
                                      GroupByChapter(subject_group))
             IN  IF after.raised THEN after ELSE EndOfSubject(after)

RECURSIVE SubjectLoop(_, _)
SubjectLoop(st, groups) ==
    IF groups = <<>> \/ st.raised THEN st
    ELSE SubjectLoop(SubjectStep(st, Head(groups)), Tail(groups))

\* The first part of the story: cover, part heading, the items.
ItemsPass(list) ==
    SubjectLoop(PassState(Cover \o <<Block("part_title", 0, "Questions", NoRow), Spacer>>,
                          1, FALSE),
                GroupBySubject(list))

\* (an enumerate that starts at 0)
AnswerNumberFromZero(i) == i - 1

\* enumerate(questions, 1): the number of the i-th element (i counted from 1)
AnswerNumber(i) == i

ExplanationBlocks(q) ==
    IF q.explanation # ""
    THEN <<Block("explanation_label", 0, "Explanation:", q),
           Block("explanation", 0, q.explanation, q)>>
    ELSE <<>>

\* The body of the answers loop for the i-th element.
AnswerBlocks(i, q) ==
    <<Block("answer", AnswerNumber(i), q.question_text, q)>>
        \o ExplanationBlocks(q) \o ImageBlocks(q) \o <<Spacer>>

RECURSIVE AnswersFrom(_, _)
AnswersFrom(list, i) ==
    IF i > Len(list) THEN <<>> ELSE AnswerBlocks(i, list[i]) \o AnswersFrom(list, i + 1)

\* The second part of the story: part heading, the answers.
AnswersPass(list) ==
    <<Block("part_title", 0, "Answers", NoRow), Spacer>> \o AnswersFrom(list, 1)

(***************************************************************************)
(* generate_pdf.py: add_bookmarks.  The outline is the list of the nodes   *)
(* in the order of the add_outline_item calls; a handle returned by a call *)
(* is the position of its node in that list.                               *)
(***************************************************************************)
\* The state of the loops: the nodes so far, current_page, and whether an
\* exception has left the function.
OutlineState(nodes, page, raised) ==
    [nodes |-> nodes, current_page |-> page, raised |-> raised]

\* self.pages[page_number] of a document of npages pages (Python indexing)
PageExists(npages, page) == -npages <= page /\ page < npages

\* writer.add_outline_item(title, page_number=page, parent=parent).  pypdf is
\* not part of the repository: strict tells whether the installed release
\* raises for a page number the document does not have or stores the number.
add_outline_item(st, title, page, parent, npages, strict) ==
    IF strict /\ ~PageExists(npages, page) THEN [st EXCEPT !.raised = TRUE]
    ELSE [st EXCEPT !.nodes = Append(@, Node(title, page, parent))]

\* (chapter nodes hung directly under the first node)
ChapterParentTop(subj_bm) == 1

\* parent=subj_bm
ChapterParent(subj_bm) == subj_bm

\* (a counter that skips a page)
NextPageSkips(page) == page + 2

\* current_page += 1
NextPage(page) == page + 1

\* The body of the chapter loop.
OutlineChapterStep(st, sub, subj_bm, chapter_group, npages, strict) ==
    LET chap == chapter_group[1].chapter_num
    IN  IF ~InChapters(sub, chap) THEN KeyError(st)
        ELSE LET added == add_outline_item(st,
                              ChapterNames(sub)[IndexOf(ChapterOrder(sub), chap)],
                              st.current_page, ChapterParent(subj_bm), npages, strict)
             IN  IF added.raised THEN added
                 ELSE [added EXCEPT !.current_page = NextPage(@)]

RECURSIVE OutlineChapterLoop(_, _, _, _, _, _)
OutlineChapterLoop(st, sub, subj_bm, groups, npages, strict) ==
    IF groups = <<>> \/ st.raised THEN st
    ELSE OutlineChapterLoop(
             OutlineChapterStep(st, sub, subj_bm, Head(groups), npages, strict),
             sub, subj_bm, Tail(groups), npages, strict)

\* The body of the subject loop; part1 is the first node of the outline.
OutlineSubjectStep(st, subject_group, npages, strict) ==
    LET sub == subject_group[1].subject_code
    IN  IF ~InSubjects(sub) THEN KeyError(st)
        ELSE LET added == add_outline_item(st, SubjectName(sub), st.current_page, 1,
                                            npages, strict)
             IN  IF added.raised THEN added
                 ELSE OutlineChapterLoop(added, sub, Len(added.nodes),
                                         GroupByChapter(subject_group), npages, strict)

RECURSIVE OutlineSubjectLoop(_, _, _, _)
OutlineSubjectLoop(st, groups, npages, strict) ==
    IF groups = <<>> \/ st.raised THEN st
    ELSE OutlineSubjectLoop(OutlineSubjectStep(st, Head(groups), npages, strict),
                            Tail(groups), npages, strict)

\* (the page count itself)
AnswerPageCount(npages) == npages

\* answer_page = len(reader.pages) - 1
AnswerPage(npages) == npages - 1

\* add_bookmarks from the first add_outline_item to the last
OutlineNodes(list, npages, strict) ==
    LET part1 == add_outline_item(OutlineState(<<>>, 1, FALSE), "Questions", 1, 0,
                                  npages, strict)
        looped == IF part1.raised THEN part1
                  ELSE OutlineSubjectLoop(part1, GroupBySubject(list), npages, strict)
    IN  IF looped.raised THEN looped
        ELSE add_outline_item(looped, "Answers", AnswerPage(npages), 0, npages, strict)

(***************************************************************************)
(* generate_pdf.py: main, stage by stage, and SpecPdf.  A run starts after *)
(* the font check of main has passed.                                      *)
(***************************************************************************)
\* (a test that never sees an empty list)
NeverEmpty(list) == FALSE

\* if not questions
NothingToAssemble(list) == list = <<>>

\* (a query that also removes the rows it does not return)
SelectAndPrune(rows) == {r \in rows : r.status = "published"}

\* The table after the connection of fetch_published_questions is closed: the
\* function executes one SELECT and never commits.
TableAfterSelect(rows) == rows

\* questions = fetch_published_questions(); if not questions: return
Fetch ==
    /\ ppc = "start"
    /\ questions' = fetch_published_questions(store)
    /\ fetched' = {r \in store : r.status = "published"}
    /\ store' = TableAfterSelect(store)
    /\ ppc' = IF NothingToAssemble(questions') THEN "nothing" ELSE "fetched"
    /\ UNCHANGED <<story, fileVars>>

\* generate_content_pdf(questions, temp_pdf) up to the finished story; a KeyError
\* leaves it, and main, before doc.build.
BuildStory ==
    /\ ppc = "fetched"
    /\ LET items == ItemsPass(questions)
       IN  IF items.raised
           THEN ppc' = "crashed" /\ story' = <<>>
           ELSE ppc' = "built" /\ story' = items.story \o AnswersPass(questions)
    /\ UNCHANGED <<questions, fetched, store, fileVars>>

\* The fewest pages the layout gives a story: the cover, one page for every
\* subject (a PageBreak ends the cover and every subject), one for the answers.
MinPages(list) == Len(GroupBySubject(list)) + 2

\* The layout engine can draw every block: no image block is of a file that is
\* no image.
Drawable(blocks) ==
    \A k \in 1..Len(blocks) : blocks[k].kind = "image" => blocks[k].text \in ImagesOnDisk

\* doc.build(story): the layout engine writes temp_workbook.pdf, of as many
\* pages as the texts need, or fails (an OSError, a LayoutError) and leaves no
\* file or a part of one.
Paginate ==
    /\ ppc = "built"
    /\ \/ /\ Drawable(story)
          /\ \E p \in MinPages(questions)..MaxPages :
                tempFile' = File("pdf", p, <<>>, Today)
          /\ ppc' = "paginated"
       \/ /\ tempFile' \in {tempFile, File("partial", 0, <<>>, Today)}
          /\ ppc' = "crashed"
    /\ UNCHANGED <<store, questions, fetched, story, finalFile, finalBefore, writer>>

\* temp_workbook.pdf is a fixed name in the working directory: between doc.build
\* and PdfReader another program may replace the file by one that is no PDF
\* or has no page, or remove it.
TempDamaged ==
    /\ ppc = "paginated"
    /\ tempFile.kind = "pdf" /\ tempFile.pages > 0
    /\ tempFile' \in {File("unreadable", 0, <<>>, Today), File("pdf", 0, <<>>, Today),
                      NoFile}
    /\ UNCHANGED <<store, ppc, questions, fetched, story, finalFile, finalBefore, writer>>

\* add_bookmarks: reader = PdfReader(pdf_path) raises for a file that is absent
\* or no PDF; then every page is added to the writer.
OpenArtifact ==
    /\ ppc = "paginated"
    /\ IF tempFile.kind = "pdf"
       THEN ppc' = "opened" /\ writer' = [pages |-> tempFile.pages, outline |-> <<>>]
       ELSE ppc' = "crashed" /\ UNCHANGED writer
    /\ UNCHANGED <<store, questions, fetched, story, tempFile, finalFile, finalBefore>>

\* (an outline made from a second query of the store)
OutlineSourceRefetched == fetch_published_questions(store)

\* main passes add_bookmarks the list it passed generate_content_pdf
OutlineSource == questions

\* add_bookmarks: the add_outline_item calls
BuildOutline ==
    /\ ppc = "opened"
    /\ \E strict \in BOOLEAN :
          LET built == OutlineNodes(OutlineSource, writer.pages, strict)
          IN  IF built.raised
              THEN ppc' = "crashed" /\ UNCHANGED writer
              ELSE ppc' = "outlined" /\ writer' = [writer EXCEPT !.outline = built.nodes]
    /\ UNCHANGED <<store, questions, fetched, story, tempFile, finalFile, finalBefore>>

\* add_bookmarks: open(final_path, "wb") creates the file or empties it, or
\* raises (no permission, the file is locked by a viewer).
OpenFinal ==
    /\ ppc = "outlined"
    /\ \/ ppc' = "writing" /\ finalFile' = File("partial", 0, <<>>, Today)
       \/ ppc' = "crashed" /\ UNCHANGED finalFile
    /\ UNCHANGED <<store, questions, fetched, story, tempFile, finalBefore, writer>>

\* add_bookmarks: writer.write(f) writes the document to its end or raises on
\* the way (the disk is full).
WriteFinal ==
    /\ ppc = "writing"
    /\ \/ /\ ppc' = "written"
          /\ finalFile' = File("pdf", writer.pages, writer.outline, Today)
       \/ ppc' = "crashed" /\ UNCHANGED finalFile
    /\ UNCHANGED <<store, questions, fetched, story, tempFile, finalBefore, writer>>

\* main: Path(temp_pdf).unlink(missing_ok=True)
Unlink ==
    /\ ppc = "written"
    /\ tempFile' = NoFile
    /\ ppc' = "done"
    /\ UNCHANGED <<store, questions, fetched, story, finalFile, finalBefore, writer>>

\* Rows a run may find in the store.
IdNum(sub, chap, n) == Id(sub, chap, Format06d(n))

XX == <<"X", "X">>

PubRow(id, sub, chap) == Row(id, sub, chap, "published", "Q", "past", "past")

CatalogRows ==
    { PubRow(IdNum(DS, Chapter(1), 1), DS, Chapter(1)),
      Row(IdNum(DS, Chapter(1), 1), DS, Chapter(1), "draft", "Q", "past", "past"),
      PubRow(IdNum(DS, Chapter(1), 2), DS, Chapter(1)),
      Row(IdNum(DS, Chapter(1), 2), DS, Chapter(1), "deprecated", "Q", "past", "past"),
      PubRow(IdNum(DS, Chapter(2), 1), DS, Chapter(2)),
      PubRow(IdNum(CO, Chapter(1), 1), CO, Chapter(1)),
      \* a row of CO 01 under an identifier of DS 01
      PubRow(IdNum(DS, Chapter(1), 2), CO, Chapter(1)),
      \* chapters 08 and 09 are not chapters of DS; the second id is not of its chapter
      PubRow(IdNum(DS, Chapter(9), 1), DS, Chapter(9)),
      PubRow(IdNum(DS, Chapter(9), 2), DS, Chapter(8)),
      PubRow(IdNum(DS, Chapter(9), 3), DS, Chapter(9)),
      \* XX is not a subject
      PubRow(IdNum(XX, Chapter(1), 1), XX, Chapter(1)),
      \* a single-choice question with choices A and C only, and an image
      [PubRow(IdNum(DS, Chapter(1), 3), DS, Chapter(1))
          EXCEPT !.option_a = "a", !.option_c = "c",
                 !.image_path = "assets/images/a.png"],
      \* an application question whose choice columns are filled, with the path
      \* of an image that is not there
      [PubRow(IdNum(DS, Chapter(2), 2), DS, Chapter(2))
          EXCEPT !.question_type = "application", !.option_a = "a", !.option_b = "b",
                 !.image_path = "assets/images/gone.png"],
      \* a question whose image file is no image
      [PubRow(IdNum(CO, Chapter(1), 1), CO, Chapter(1))
          EXCEPT !.image_path = "assets/images/bad.png"],
      \* a third chapter of DS
      PubRow(IdNum(DS, Chapter(3), 1), DS, Chapter(3)) }

Catalogs == {rows \in SUBSET CatalogRows : Cardinality(rows) <= MaxCatalog /\ UniqueIds(rows)}

\* The kinds of reportlab release a run over rows is looked at with: the two
\* kinds differ only where a row names a file that is no image.
ReportlabReleases(rows) ==
    IF \E r \in rows : r.image_path \in BrokenImages THEN BOOLEAN ELSE {TRUE}

InitPdf ==
    /\ store \in Catalogs
    /\ InitEditors /\ InitImport
    /\ ppc = "start"
    /\ questions = <<>>
    /\ fetched = {}
    /\ story = <<>>
    /\ edits = 0
    /\ tempFile = NoFile
    /\ finalFile \in {NoFile, OldFinal}
    /\ finalBefore = finalFile
    /\ writer = NoWriter
    /\ lazyImages \in ReportlabReleases(store)

\* The rows an editor writes while a run is under way: one that withdraws a
\* published question and one that publishes a question.
EditorRows ==
    { Row(IdNum(DS, Chapter(1), 1), DS, Chapter(1), "draft", "Q", "past", "past"),
      PubRow(IdNum(DS, Chapter(2), 1), DS, Chapter(2)) }

\* An editor imports a one-entry file while the run is under way.
EditorWrite ==
    /\ edits < MaxEdits
    /\ edits' = edits + 1
    /\ \E row \in EditorRows : ImportEffect("e1", <<Entry(row, {})>>)
    /\ UNCHANGED <<ops, importVars, ppc, questions, fetched, story, fileVars, lazyImages>>

NextPdf ==
    \/ Fetch /\ UNCHANGED <<editorVars, importVars, edits, lazyImages>>
    \/ BuildStory /\ UNCHANGED <<editorVars, importVars, edits, lazyImages>>
    \/ Paginate /\ UNCHANGED <<editorVars, importVars, edits, lazyImages>>
    \/ TempDamaged /\ UNCHANGED <<editorVars, importVars, edits, lazyImages>>
    \/ OpenArtifact /\ UNCHANGED <<editorVars, importVars, edits, lazyImages>>
    \/ BuildOutline /\ UNCHANGED <<editorVars, importVars, edits, lazyImages>>
    \/ OpenFinal /\ UNCHANGED <<editorVars, importVars, edits, lazyImages>>
    \/ WriteFinal /\ UNCHANGED <<editorVars, importVars, edits, lazyImages>>
    \/ Unlink /\ UNCHANGED <<editorVars, importVars, edits, lazyImages>>
    \/ EditorWrite

SpecPdf == InitPdf /\ [][NextPdf]_vars

(***************************************************************************)
(* The workbook: C1 - C5.                                                  *)
(***************************************************************************)
IsQuestion(b) == b.kind = "question"
IsAnswer(b) == b.kind = "answer"

QuestionBlocks == SelectSeq(story, IsQuestion)
AnswerBlockSeq == SelectSeq(story, IsAnswer)

Subjects(list) == {list[i].subject_code : i \in 1..Len(list)}
PairsIn(list) == {<<list[i].subject_code, list[i].chapter_num>> : i \in 1..Len(list)}

\* C1: in a finished story, the number in the question block of a row equals the
\* number in the answer block of the same row.
C1_SameNumberInBothSections ==
    ppc = "built" =>
        \A i, j \in 1..Len(story) :
            (IsQuestion(story[i]) /\ IsAnswer(story[j]) /\ story[i].q = story[j].q)
                => story[i].num = story[j].num

\* A finished story over rows of two subjects, one of them with two chapters.
C1_Witness ==
    /\ ppc = "built"
    /\ Cardinality(Subjects(questions)) >= 2
    /\ Cardinality(PairsIn(questions)) >= 3
    /\ \E i, j \in 1..Len(story) :
          IsQuestion(story[i]) /\ IsAnswer(story[j]) /\ story[i].q = story[j].q
             /\ story[i].num = Len(questions)

\* C2: in a finished story over N rows the numbers of the question blocks are
\* 1, 2, ..., N in the order of the blocks.
C2_NumbersAreOneToN ==
    ppc = "built" =>
        /\ Len(QuestionBlocks) = Len(questions)
        /\ \A k \in 1..Len(QuestionBlocks) : QuestionBlocks[k].num = k

\* A finished story whose numbering runs on over a change of subject and of chapter.
C2_Witness ==
    /\ ppc = "built"
    /\ \E k \in 2..Len(QuestionBlocks) :
          QuestionBlocks[k].q.subject_code # QuestionBlocks[k - 1].q.subject_code
    /\ \E k \in 2..Len(QuestionBlocks) :
          /\ QuestionBlocks[k].q.subject_code = QuestionBlocks[k - 1].q.subject_code
          /\ QuestionBlocks[k].q.chapter_num # QuestionBlocks[k - 1].q.chapter_num

BlockRows(blocks) == {blocks[k].q : k \in 1..Len(blocks)}

\* C3: the rows in a finished story are the rows that were published when the run
\* fetched: each of them once among the questions and once among the answers, no
\* other row in any block, and the highest number is their count.
C3_ExactlyThePublishedRows ==
    ppc = "built" =>
        /\ BlockRows(QuestionBlocks) = fetched
        /\ Len(QuestionBlocks) = Cardinality(fetched)
        /\ BlockRows(AnswerBlockSeq) = fetched
        /\ Len(AnswerBlockSeq) = Cardinality(fetched)
        /\ \A k \in 1..Len(story) : story[k].q # NoRow => story[k].q \in fetched
        /\ \A k \in 1..Len(story) : story[k].num <= Cardinality(fetched)

\* A finished story of a run that found a draft or deprecated row next to published ones.
C3_Witness ==
    /\ ppc = "built" /\ edits = 0
    /\ \E r \in store : r.status = "draft"
    /\ Cardinality(fetched) >= 2

Listed(sub) == \E i \in 1..Len(SUBJECT_ORDER) : SUBJECT_ORDER[i] = sub

ListedChapter(sub, chap) ==
    Listed(sub) /\ \E i \in 1..Len(ChapterNames(sub)) : Chapter(i) = chap

SubjectPos(sub) == CHOOSE i \in 1..Len(SUBJECT_ORDER) : SUBJECT_ORDER[i] = sub

ChapterPos(sub, chap) == CHOOSE i \in 1..Len(ChapterNames(sub)) : Chapter(i) = chap

\* Row a comes before row b in the order of the configuration: listed subjects in
\* the order of SUBJECTS and before the unlisted ones; in a listed subject, listed
\* chapters in their order and before the unlisted ones; otherwise by id.
ComesBefore(a, b) ==
    IF a.subject_code # b.subject_code /\ (Listed(a.subject_code) \/ Listed(b.subject_code))
    THEN /\ Listed(a.subject_code)
         /\ Listed(b.subject_code) => SubjectPos(a.subject_code) < SubjectPos(b.subject_code)
    ELSE IF /\ a.subject_code = b.subject_code /\ Listed(a.subject_code)
            /\ a.chapter_num # b.chapter_num
            /\ \/ ListedChapter(a.subject_code, a.chapter_num)
               \/ ListedChapter(b.subject_code, b.chapter_num)
    THEN /\ ListedChapter(a.subject_code, a.chapter_num)
         /\ ListedChapter(b.subject_code, b.chapter_num)
               => ChapterPos(a.subject_code, a.chapter_num)
                     < ChapterPos(b.subject_code, b.chapter_num)
    ELSE StrLess(a.id, b.id)

HasFetched == ppc \notin {"off", "start"}

\* C4: the fetched list holds each published row once and is in the order of the
\* configuration, which leaves one possible list for a set of rows.
C4_SortedByConfiguredOrder ==
    HasFetched =>
        /\ {questions[i] : i \in 1..Len(questions)} = fetched
        /\ Len(questions) = Cardinality(fetched)
        /\ \A i, j \in 1..Len(questions) : i < j => ComesBefore(questions[i], questions[j])

\* A fetched list with an unlisted subject after two listed ones that the order of
\* SUBJECTS, not the order of the ids, put in place.
C4_Witness ==
    /\ ppc = "fetched"
    /\ \E i, j, k \in 1..Len(questions) :
          /\ i < j /\ j < k
          /\ Listed(questions[i].subject_code) /\ Listed(questions[j].subject_code)
          /\ questions[i].subject_code # questions[j].subject_code
          /\ StrLess(questions[j].id, questions[i].id)
          /\ ~Listed(questions[k].subject_code)

\* C5 as stated: in the fetched list the rows of one subject are adjacent, and so
\* are the rows of one (subject, chapter), for every catalog.
C5_GroupsAreAdjacent ==
    HasFetched =>
        \A i, k, j \in 1..Len(questions) :
            (i < k /\ k < j) =>
                /\ questions[i].subject_code = questions[j].subject_code
                      => questions[k].subject_code = questions[i].subject_code
                /\ (/\ questions[i].subject_code = questions[j].subject_code
                    /\ questions[i].chapter_num = questions[j].chapter_num)
                      => /\ questions[k].subject_code = questions[i].subject_code
                         /\ questions[k].chapter_num = questions[i].chapter_num

\* C5 amended: the rows of one listed subject are adjacent, and so are the rows of
\* one chapter that its subject lists, whatever the ids are; groupby then yields a
\* listed subject once, and a listed chapter once in its subject.
C5_ListedGroupsAreAdjacent ==
    HasFetched =>
        /\ \A i, k, j \in 1..Len(questions) :
              (i < k /\ k < j) =>
                  /\ (/\ questions[i].subject_code = questions[j].subject_code
                      /\ Listed(questions[i].subject_code))
                        => questions[k].subject_code = questions[i].subject_code
                  /\ (/\ questions[i].subject_code = questions[j].subject_code
                      /\ questions[i].chapter_num = questions[j].chapter_num
                      /\ ListedChapter(questions[i].subject_code, questions[i].chapter_num))
                        => /\ questions[k].subject_code = questions[i].subject_code
                           /\ questions[k].chapter_num = questions[i].chapter_num
        /\ LET groups == GroupBySubject(questions)
           IN  \A g, h \in 1..Len(groups) :
                  (g # h /\ groups[g][1].subject_code = groups[h][1].subject_code)
                      => ~Listed(groups[g][1].subject_code)
        /\ \A g \in 1..Len(GroupBySubject(questions)) :
              LET chapters == GroupByChapter(GroupBySubject(questions)[g])
              IN  \A c, d \in 1..Len(chapters) :
                     (c # d /\ chapters[c][1].chapter_num = chapters[d][1].chapter_num)
                         => ~ListedChapter(chapters[c][1].subject_code,
                                           chapters[c][1].chapter_num)

\* A fetched list of two listed subjects in which a row carries an identifier of
\* the other subject, lying between the identifiers of that subject's rows.
C5_Witness ==
    /\ ppc = "fetched"
    /\ \E i, j, k \in 1..Len(questions) :
          /\ i < j /\ j < k
          /\ questions[i].subject_code = questions[j].subject_code
          /\ Listed(questions[i].subject_code) /\ Listed(questions[k].subject_code)
          /\ questions[k].subject_code # questions[i].subject_code
          /\ StrLess(questions[i].id, questions[k].id)
          /\ StrLess(questions[k].id, questions[j].id)

(***************************************************************************)
(* The outline: C12 - C14.                                                 *)
(***************************************************************************)
\* add_bookmarks has made its last add_outline_item call.
OutlineDone == ppc \in {"outlined", "writing", "written", "done"}

RECURSIVE Ascending(_)
Ascending(S) ==
    IF S = {} THEN <<>>
    ELSE LET m == CHOOSE x \in S : \A y \in S : x <= y
         IN  <<m>> \o Ascending(S \ {m})

\* The positions of the nodes whose parent is the node at position p (the
\* top-level nodes for p = 0), in outline order.
ChildrenOf(nodes, p) == Ascending({i \in 1..Len(nodes) : nodes[i].parent = p})

\* The distinct subjects of a list of listed subjects, in the order of SUBJECTS.
SortedSubjects(list) ==
    LET S == Subjects(list)
    IN  CHOOSE f \in [1..Cardinality(S) -> S] :
           \A i, j \in 1..Cardinality(S) : i < j => SubjectPos(f[i]) < SubjectPos(f[j])

\* The distinct chapters of the rows of sub, in the order of the configuration.
SortedChapters(list, sub) ==
    LET S == {p[2] : p \in {q \in PairsIn(list) : q[1] = sub}}
    IN  CHOOSE f \in [1..Cardinality(S) -> S] :
           \A i, j \in 1..Cardinality(S) :
               i < j => ChapterPos(sub, f[i]) < ChapterPos(sub, f[j])

\* C12: the outline add_bookmarks builds has two top-level nodes, Questions
\* (Items) first and Answers second; under Questions one node per distinct
\* subject of the list, in sorted order, each with one node per distinct chapter
\* of the subject, in sorted order and with nothing below; Answers has no
\* children; the final file, once written, carries that outline.
C12_OutlineShape ==
    OutlineDone =>
        LET nodes == writer.outline
            top == ChildrenOf(nodes, 0)
            exp == SortedSubjects(questions)
        IN  /\ Len(top) = 2
            /\ nodes[top[1]].title = "Questions" /\ nodes[top[2]].title = "Answers"
            /\ ChildrenOf(nodes, top[2]) = <<>>
            /\ LET subs == ChildrenOf(nodes, top[1])
               IN  /\ Len(subs) = Len(exp)
                   /\ \A k \in 1..Len(subs) :
                         LET chs == ChildrenOf(nodes, subs[k])
                             expc == SortedChapters(questions, exp[k])
                         IN  /\ nodes[subs[k]].title = SubjectName(exp[k])
                             /\ Len(chs) = Len(expc)
                             /\ \A j \in 1..Len(chs) :
                                   /\ nodes[chs[j]].title =
                                         ChapterNames(exp[k])[ChapterPos(exp[k], expc[j])]
                                   /\ ChildrenOf(nodes, chs[j]) = <<>>
            /\ ppc \in {"written", "done"} => finalFile.outline = nodes

\* A written workbook of two subjects, one of them with two chapters.
C12_Witness ==
    /\ ppc = "done"
    /\ Cardinality(Subjects(questions)) = 2
    /\ Cardinality(PairsIn(questions)) = 3
    /\ Len(finalFile.outline) = 7

\* The positions of the chapter nodes (the nodes under the subject nodes), in
\* outline order.
ChapterNodes(nodes) ==
    LET subs == ChildrenOf(nodes, 1)
    IN  Ascending({i \in 1..Len(nodes) :
                     \E k \in 1..Len(subs) : nodes[i].parent = subs[k]})

\* C13: the k-th chapter node of the outline (k = 0, 1, ... over all subjects)
\* is anchored at page 1 + k and every subject node at the page of its first
\* chapter node, whatever the page count of the document is.
C13_OnePagePerChapter ==
    OutlineDone =>
        LET nodes == writer.outline
            subs == ChildrenOf(nodes, 1)
            chaps == ChapterNodes(nodes)
        IN  /\ \A k \in 1..Len(chaps) : nodes[chaps[k]].page = 1 + (k - 1)
            /\ \A k \in 1..Len(subs) :
                  /\ ChildrenOf(nodes, subs[k]) # <<>>
                  /\ nodes[subs[k]].page = nodes[ChildrenOf(nodes, subs[k])[1]].page

\* An outline whose second subject starts where the count of the first one
\* ended, in a document with more pages than chapters.
C13_Witness ==
    /\ OutlineDone
    /\ Len(ChapterNodes(writer.outline)) = 3
    /\ Len(ChildrenOf(writer.outline, 1)) = 2
    /\ writer.outline[ChildrenOf(writer.outline, 1)[2]].page = 3
    /\ writer.pages = MaxPages

\* C14: the Answers node is anchored at page number (page count - 1), whatever
\* the subjects and chapters are.
C14_AnswersAnchor ==
    OutlineDone =>
        LET nodes == writer.outline
            answers == nodes[Len(nodes)]
        IN  /\ answers.title = "Answers" /\ answers.parent = 0
            /\ answers.page = writer.pages - 1
            /\ ppc \in {"written", "done"} =>
                  finalFile.outline[Len(finalFile.outline)].page = finalFile.pages - 1

\* A written workbook of one chapter and of MaxPages pages.
C14_Witness ==
    /\ ppc = "done"
    /\ Cardinality(PairsIn(questions)) = 1
    /\ finalFile.pages = MaxPages
    /\ finalFile.outline[Len(finalFile.outline)].page = MaxPages - 1

(***************************************************************************)
(* The files of a run: C15 - C19.                                          *)
(***************************************************************************)
\* temp_workbook.pdf cannot be opened as a PDF or has no page.
TempUnavailable == tempFile.kind # "pdf" \/ tempFile.pages = 0

\* C15: when temp_workbook.pdf cannot be re-opened or has no page, the outline
\* stage fails and the run ends with the final file as it was before the run
\* and without any outline node.
C15_UnavailableArtifactStopsTheRun ==
    (TempUnavailable /\ ppc \in {"writing", "written", "crashed"}) =>
        /\ ppc = "crashed"
        /\ finalFile = finalBefore
        /\ writer.outline = <<>>

\* C16: after every run, also a failed one, the file under the final name is
\* absent, or a whole document with an outline.
C16_FinalIsWholeAfterEveryRun ==
    ppc \in {"nothing", "crashed", "done"} =>
        \/ finalFile.kind = "absent"
        \/ finalFile.kind = "pdf" /\ finalFile.outline # <<>>

\* C17: after a failed run no paginated temp_workbook.pdf of the run remains.
C17_NoIntermediateAfterFailure ==
    ppc = "crashed" => ~(tempFile.kind = "pdf" /\ tempFile.pages > 0)

\* C18: a run that finds no published row ends in the state "nothing" (main
\* prints a warning and returns): no story is built, no temp_workbook.pdf is
\* created, no outline is made, and the final file stays as it was.
C18_NothingToAssemble ==
    (HasFetched /\ fetched = {}) =>
        /\ ppc = "nothing"
        /\ questions = <<>> /\ story = <<>>
        /\ tempFile = NoFile /\ writer = NoWriter
        /\ finalFile = finalBefore

\* A run over a store of drafts only, with a workbook of an earlier run in place.
C18_Witness ==
    /\ ppc = "nothing"
    /\ store # {} /\ edits = 0
    /\ finalFile = OldFinal

\* C19: no step of a run changes the store: whenever the run moves on, the rows
\* of the store and all their fields stay as they are.
C19_RunLeavesStoreAlone ==
    [][<<ppc, questions, fetched, story>>' # <<ppc, questions, fetched, story>>
          => store' = store]_vars

\* A run that went to its end, over a store with a draft next to a published
\* row, while no editor wrote.
C19_Witness ==
    /\ ppc = "done" /\ edits = 0
    /\ \E r \in store : r.status = "draft"
    /\ \E r \in store : r.status = "published"

(***************************************************************************)
(* The choices of a question: C20.                                         *)
(***************************************************************************)
ChoiceOf(q, letter) ==
    CASE letter = "A" -> q.option_a [] letter = "B" -> q.option_b
      [] letter = "C" -> q.option_c [] letter = "D" -> q.option_d

\* The letters of the choice blocks that q is to get.
ExpectedLetters(q) ==
    LET Filled(letter) == ChoiceOf(q, letter) # ""
    IN  IF q.question_type = "single_choice"
        THEN SelectSeq(<<"A", "B", "C", "D">>, Filled)
        ELSE <<>>

\* C20: in the story the question block of a row is followed by one choice block
\* for each filled choice of the row when the row is single_choice, in the order
\* A, B, C, D and labelled with the letter of the choice, and by none otherwise;
\* there are no other choice blocks.
C20_ChoiceBlocks ==
    /\ \A k \in 1..Len(story) :
          story[k].kind = "question" =>
              LET q == story[k].q
                  exp == ExpectedLetters(q)
              IN  /\ k + Len(exp) + 1 <= Len(story)
                  /\ \A j \in 1..Len(exp) :
                        /\ story[k + j].kind = "option"
                        /\ story[k + j].text = exp[j]
                        /\ story[k + j].q = q
                  /\ story[k + Len(exp) + 1].kind # "option"
    /\ \A k \in 1..Len(story) :
          story[k].kind = "option" =>
              k > 1 /\ story[k - 1].kind \in {"question", "option"}

\* A story with a question that has choices A and C only, an application
\* question whose choice columns are filled, and a single_choice question
\* without choices.
C20_Witness ==
    /\ story # <<>>
    /\ \E k \in 1..Len(story) - 2 :
          /\ story[k].kind = "question"
          /\ story[k + 1].kind = "option" /\ story[k + 1].text = "A"
          /\ story[k + 2].kind = "option" /\ story[k + 2].text = "C"
    /\ \E i \in 1..Len(questions) :
          questions[i].question_type = "application" /\ questions[i].option_a # ""
    /\ \E i \in 1..Len(questions) :
          questions[i].question_type = "single_choice" /\ ExpectedLetters(questions[i]) = <<>>

(***************************************************************************)
(* Images: C21.                                                            *)
(***************************************************************************)
\* The position of the heading of the answers part in a finished story.
AnswersStart == CHOOSE k \in 1..Len(story) :
                    story[k].kind = "part_title" /\ story[k].text = "Answers"

\* The number of image blocks of row q among the blocks from..to of the story.
ImageCount(q, from, to) ==
    Cardinality({k \in from..to : story[k].kind = "image" /\ story[k].q = q})

\* C21: in a finished story a row whose image path is empty or names a file that
\* is missing or is no image has no image block in either part, a row whose
\* image resolves has one in each part, and nothing in the story keeps the
\* layout engine from drawing it (no error is raised for an image).
C21_ImageBlocks ==
    story # <<>> =>
        /\ \A i \in 1..Len(questions) :
              LET q == questions[i]
                  n == IF q.image_path \in ImagesOnDisk THEN 1 ELSE 0
              IN  /\ ImageCount(q, 1, AnswersStart) = n
                  /\ ImageCount(q, AnswersStart, Len(story)) = n
        /\ Drawable(story)

(***************************************************************************)
(* Page breaks: C22.                                                       *)
(***************************************************************************)
\* The position of the heading of the questions part in a finished story.
ItemsStart == CHOOSE k \in 1..Len(story) :
                  story[k].kind = "part_title" /\ story[k].text = "Questions"

\* The positions of the blocks of a kind in the questions part.
ItemsOfKind(kind) == {k \in ItemsStart..AnswersStart : story[k].kind = kind}

\* C22: in the questions part of a finished story every subject ends with one
\* page break: the block before every subject heading but the first, and the
\* block before the heading of the answers part, is a page break that follows
\* the spacer of the subject's last question; between two page breaks there is
\* a subject heading; and there are as many page breaks as subjects.
C22_PageBreakAfterEverySubject ==
    story # <<>> =>
        LET breaks == ItemsOfKind("page_break")
            heads == ItemsOfKind("subject_title")
        IN  /\ Cardinality(breaks) = Cardinality(Subjects(questions))
            /\ Cardinality(heads) = Cardinality(Subjects(questions))
            /\ story[AnswersStart - 1].kind = "page_break"
            /\ \A h \in heads :
                  \/ story[h - 1].kind = "page_break"
                  \/ h = ItemsStart + 2 /\ \A g \in heads : h <= g
            /\ \A b \in breaks :
                  /\ story[b - 1].kind = "spacer" /\ story[b - 2].kind # "part_title"
                  /\ story[b + 1].kind \in {"subject_title", "part_title"}

\* A finished story of two subjects, the first with two questions.
C22_Witness ==
    /\ story # <<>>
    /\ Cardinality(ItemsOfKind("page_break")) = 2
    /\ Cardinality(ItemsOfKind("question")) = 3

(***************************************************************************)
(* The outline and the headings: C23.                                      *)
(***************************************************************************)
IsHeading(b) == b.kind \in {"subject_title", "chapter_title"}

\* The texts of the subject and chapter headings of the story, in order.
HeadingTexts ==
    LET heads == SelectSeq(story, IsHeading)
    IN  [k \in 1..Len(heads) |-> heads[k].text]

\* The titles of the nodes under the first node of the outline, in order.
NodeTitles(nodes) ==
    LET below == SelectSeq(nodes, LAMBDA n : n.parent # 0)
    IN  [k \in 1..Len(below) |-> below[k].title]

\* C23: an outline exists only after temp_workbook.pdf has been paginated, and
\* its subject and chapter nodes carry, in order, the texts of the subject and
\* chapter headings of the story of the same run, also when an editor has
\* changed the store since the fetch.
C23_OutlineFollowsHeadings ==
    /\ writer.outline # <<>> => ppc \in {"outlined", "writing", "written", "done", "crashed"}
    /\ OutlineDone =>
          /\ NodeTitles(writer.outline) = HeadingTexts
          /\ \A k \in 1..Len(writer.outline) :
                LET n == writer.outline[k]
                IN  n.parent # 0 =>
                       (n.parent = 1 <=> \E sub \in Subjects(questions) :
                                            n.title = SubjectName(sub))

\* An outline of a run during which an editor published a question of a chapter
\* the fetched list does not have.
C23_Witness ==
    /\ OutlineDone /\ edits > 0
    /\ Len(HeadingTexts) >= 3
    /\ \E r \in store : /\ r.status = "published"
                        /\ <<r.subject_code, r.chapter_num>> \notin PairsIn(questions)

(***************************************************************************)
(* The anchors and the pages of the document: C25.                         *)
(***************************************************************************)
\* The document of P pages has the page an anchor names.
AnchorExists(page, P) == 0 <= page /\ page < P

\* C25 as stated: every anchor of the outline names a page of the document, and
\* no chapter anchor lies after the anchor of the Answers node.
C25_AnchorsExist ==
    (OutlineDone /\ writer.pages >= 1) =>
        LET nodes == writer.outline
            chaps == ChapterNodes(nodes)
        IN  /\ \A k \in 1..Len(nodes) : AnchorExists(nodes[k].page, writer.pages)
            /\ \A k \in 1..Len(chaps) : nodes[chaps[k]].page <= nodes[Len(nodes)].page

\* C25, amended: no anchor is negative and the anchor of the Answers node names
\* the last page; the anchor of the Questions node names a page when the
\* document has two pages or more; the anchor of the k-th chapter node (k = 1,
\* 2, ...), and of a subject node that starts with it, names a page, and lies
\* not after the Answers anchor, exactly when k is less than the page count.
C25_AnchorsExistUpToPageCount ==
    (OutlineDone /\ writer.pages >= 1) =>
        LET nodes == writer.outline
            P == writer.pages
            subs == ChildrenOf(nodes, 1)
            chaps == ChapterNodes(nodes)
        IN  /\ \A k \in 1..Len(nodes) : nodes[k].page >= 0
            /\ nodes[Len(nodes)].page = P - 1
            /\ AnchorExists(nodes[1].page, P) <=> P >= 2
            /\ \A k \in 1..Len(chaps) :
                  /\ AnchorExists(nodes[chaps[k]].page, P) <=> k < P
                  /\ nodes[chaps[k]].page <= nodes[Len(nodes)].page <=> k < P
                  /\ \A j \in 1..Len(subs) :
                        chaps[k] = subs[j] + 1 =>
                            (AnchorExists(nodes[subs[j]].page, P) <=> k < P)

\* An outline of three chapters for a document of three pages: the anchor of the
\* third chapter names a page the document does not have.
C25_Witness ==
    /\ OutlineDone
    /\ writer.pages = 3
    /\ Len(ChapterNodes(writer.outline)) = 3
    /\ \E k \in 1..Len(writer.outline) : writer.outline[k].page = 3

(***************************************************************************)
(* Rows of a subject or chapter that is not configured: C26.               *)
(***************************************************************************)
Unconfigured(r) == ~ListedChapter(r.subject_code, r.chapter_num)

\* C26: when a published row is of a subject that SUBJECTS does not have, or of
\* a chapter that its subject does not have, the fetched list holds the row,
\* after the rows of the configured subjects (and, in its subject, after the
\* rows of the configured chapters), and the run ends in generate_content_pdf
\* before pagination: there is no story, no temp_workbook.pdf, no outline, and
\* the final file is as it was.
C26_UnconfiguredRowStopsTheRun ==
    (HasFetched /\ \E r \in fetched : Unconfigured(r)) =>
        /\ ppc \in {"fetched", "crashed"}
        /\ story = <<>> /\ tempFile = NoFile /\ writer = NoWriter
        /\ finalFile = finalBefore
        /\ \A r \in fetched : \E i \in 1..Len(questions) : questions[i] = r
        /\ \A i, j \in 1..Len(questions) :
              i < j =>
                 /\ ~Listed(questions[i].subject_code) => ~Listed(questions[j].subject_code)
                 /\ (questions[i].subject_code = questions[j].subject_code
                       /\ Unconfigured(questions[i])) => Unconfigured(questions[j])

\* A run that stopped over a list with a row of a configured chapter, then a row
\* of a chapter its subject does not have, then a row of an unknown subject,
\* with a workbook of an earlier run in place.
C26_Witness ==
    /\ ppc = "crashed" /\ story = <<>> /\ tempFile = NoFile
    /\ finalFile = OldFinal
    /\ Len(questions) = 3
    /\ ~Unconfigured(questions[1])
    /\ Listed(questions[2].subject_code) /\ Unconfigured(questions[2])
    /\ ~Listed(questions[3].subject_code)

(***************************************************************************)
(* Identifiers of deleted rows: C27.                                       *)
(***************************************************************************)
\* A step that takes row r out of the store.
Removes(r) == r \in store /\ r.id \notin Ids(store')

SeqOf(r) == ParseInt(IdGroup1(r.subject_code \o r.chapter_num, r.id))

HoldsHighest(r) ==
    /\ WellFormed(r.subject_code \o r.chapter_num, r.id)
    /\ SeqOf(r) = MaxOf(SeqValues(store, r.subject_code, r.chapter_num))

FollowsTheRest(r) ==
    LET rest == PairIds(store', r.subject_code, r.chapter_num)
        prefix == r.subject_code \o r.chapter_num
    IN  IF rest = {}
        THEN SeqOf(r) = 1
        ELSE \E o \in rest :
                /\ \A j \in rest : StrLeq(j, o)
                /\ WellFormed(prefix, o)
                /\ ParseInt(IdGroup1(prefix, o)) = SeqOf(r) - 1

====
